---- MODULE Spec2Model ----
(***************************************************************************)
(* Model of the sliding-window sample generator HURDATPlus of              *)
(* models/simple_models_with_oisst.py: construction (grouping, rolling     *)
(* windows, status gate, input/target slices, raster lookup) and the       *)
(* access methods __len__ and __getitem__.                                 *)
(*                                                                         *)
(* A DataFrame is modelled by the sequence of its index labels, the        *)
(* positions of its rows in hurdat_table; the cells of a row are read from *)
(* hurdat_table.  A Python call that can raise is modelled by a record     *)
(* whose field "raised" names the exception ("none" when it returns).      *)
(***************************************************************************)
EXTENDS Integers, Sequences, FiniteSets, TLC

VARIABLES hurdat_table, oisst_table, past_horizon, future_horizon,
          pc, raised, generated_samples, ret

vars == <<hurdat_table, oisst_table, past_horizon, future_horizon,
          pc, raised, generated_samples, ret>>

(***************************************************************************)
(* Bounds of the model.                                                    *)
(***************************************************************************)
MaxRows == 4
MaxHorizon == 2
MaxRasterRows == 3
MaxIndexRows == 2
MaxRowsNonPositive == 2

(***************************************************************************)
(* Small helpers.                                                          *)
(***************************************************************************)
Min(a, b) == IF a < b THEN a ELSE b

Max(a, b) == IF a > b THEN a ELSE b

(***************************************************************************)
(* datetime: the proleptic Gregorian calendar of Python's datetime module, *)
(* which subtracts a timedelta through the day ordinal.                    *)
(***************************************************************************)
is_leap(y) == y % 4 = 0 /\ (y % 100 # 0 \/ y % 400 = 0)

DAYS_IN_MONTH == <<31, 28, 31, 30, 31, 30, 31, 31, 30, 31, 30, 31>>

DAYS_BEFORE_MONTH == <<0, 31, 59, 90, 120, 151, 181, 212, 243, 273, 304, 334>>

days_before_year(y) ==
    LET p == y - 1 IN p * 365 + (p \div 4) - (p \div 100) + (p \div 400)

days_before_month(y, m) ==
    DAYS_BEFORE_MONTH[m] + (IF m > 2 /\ is_leap(y) THEN 1 ELSE 0)

toordinal(dt) == days_before_year(dt.year) + days_before_month(dt.year, dt.month) + dt.day

\* the month found by the estimate (n + 50) >> 5 is one too large when
\* more days precede it than n
ord2ymd_fix(year, leap, month, preceding, n) ==
    IF preceding > n
    THEN [year |-> year, month |-> month - 1,
          day  |-> n + 1 - (preceding - (DAYS_IN_MONTH[month - 1]
                                + (IF month - 1 = 2 /\ leap THEN 1 ELSE 0)))]
    ELSE [year |-> year, month |-> month, day |-> n + 1 - preceding]

ord2ymd_month(year, leap, month, n) ==
    ord2ymd_fix(year, leap, month,
                DAYS_BEFORE_MONTH[month] + (IF month > 2 /\ leap THEN 1 ELSE 0), n)

ord2ymd_1(year, n100, n4, n1, n) ==
    IF n1 = 4 \/ n100 = 4
    THEN [year |-> year - 1, month |-> 12, day |-> 31]
    ELSE ord2ymd_month(year, n1 = 3 /\ (n4 # 24 \/ n100 = 3), (n + 50) \div 32, n)

ord2ymd_4(n400, n100, n4, r) ==
    ord2ymd_1(n400 * 400 + 1 + n100 * 100 + n4 * 4 + (r \div 365),
              n100, n4, r \div 365, r % 365)

ord2ymd_100(n400, n100, r) == ord2ymd_4(n400, n100, r \div 1461, r % 1461)

ord2ymd_400(n400, r) == ord2ymd_100(n400, r \div 36524, r % 36524)

\* the date of a day ordinal: 400-, 100-, 4- and 1-year cycles, then the month
fromordinal(ord) == ord2ymd_400((ord - 1) \div 146097, (ord - 1) % 146097)

\* datetime.datetime(year, month, day, hour) of the four cells of a row
datetime(row) ==
    [year |-> row.year, month |-> row.month, day |-> row.day, hour |-> row.hour]

\* the lag left out
minus_days_no_lag(dt, days) == dt

\* dt - datetime.timedelta(days=days): the date moves, the time of day stays
combine(d, dt) == [year |-> d.year, month |-> d.month, day |-> d.day, hour |-> dt.hour]

minus_days(dt, days) == combine(fromordinal(toordinal(dt) - days), dt)

(***************************************************************************)
(* strftime: a string is the sequence of its characters.                   *)
(***************************************************************************)
Digit(n) == <<"0", "1", "2", "3", "4", "5", "6", "7", "8", "9">>[n + 1]

Pad2(n) == <<Digit((n \div 10) % 10), Digit(n % 10)>>

Pad4(n) == <<Digit((n \div 1000) % 10), Digit((n \div 100) % 10)>> \o Pad2(n)

\* dt.strftime("%Y-%m-%d")
strftime_date(dt) ==
    Pad4(dt.year) \o <<"-">> \o Pad2(dt.month) \o <<"-">> \o Pad2(dt.day)

\* dt.strftime("%Y-%m-%d %H:%M:%S"); minutes and seconds of a row are zero
strftime_datetime(dt) ==
    strftime_date(dt) \o <<" ">> \o Pad2(dt.hour) \o <<":", "0", "0", ":", "0", "0">>

(***************************************************************************)
(* Constructor arguments that the model keeps fixed.                       *)
(***************************************************************************)
input_vars == <<"longitude", "latitude", "min_pressure">>

target_vars == <<"longitude", "latitude">>

grouping_var == "atcf_code"

PermittedStatus == {"TS", "HU"}

RESIZE_H == 64

RESIZE_W == 128

(***************************************************************************)
(* pandas: groupby(sort=False), rolling(window), head(n), iloc[-1],        *)
(* Series.item().                                                          *)
(***************************************************************************)
Labels(table) == [i \in 1..Len(table) |-> i]

\* groupby with sort=True: the groups in the order of their keys
groupby_sorted(table, by) ==
    LET keys == {table[i][by] : i \in 1..Len(table)}
        rank(k) == Cardinality({x \in keys : x < k}) + 1
    IN  [g \in 1..Cardinality(keys) |->
            LET k == CHOOSE x \in keys : rank(x) = g
            IN  [key |-> k,
                 df  |-> SelectSeq([i \in 1..Len(table) |-> i],
                             LAMBDA i : table[i][by] = k)]]

\* table.groupby(by, sort=False): the groups in the order their keys are
\* first met, each holding its rows in table order
groupby(table, by) ==
    LET firsts == SelectSeq(Labels(table),
                      LAMBDA i : \A j \in 1..(i - 1) : table[j][by] # table[i][by])
    IN  [g \in 1..Len(firsts) |->
            [key |-> table[firsts[g]][by],
             df  |-> SelectSeq(Labels(table),
                         LAMBDA i : table[i][by] = table[firsts[g]][by])]]

clip(x, lo, hi) == Max(lo, Min(x, hi))

\* rolling with step=2: only every second window
rolling_step2(df, window) ==
    IF window < 0
    THEN [raised |-> "ValueError", windows |-> <<>>]
    ELSE LET n == Len(df)
             end(i)   == clip(2 * i - 1, 0, n)
             start(i) == clip(2 * i - 1 - window, 0, n)
         IN  [raised  |-> "none",
              windows |-> [i \in 1..((n + 1) \div 2) |-> SubSeq(df, start(i) + 1, end(i))]]

\* df.rolling(window=window), iterated: one window ending at each row,
\* clipped at the start of df; a negative window is rejected
rolling(df, window) ==
    IF window < 0
    THEN [raised |-> "ValueError", windows |-> <<>>]
    ELSE LET n      == Len(df)
             offset == IF window = 0 THEN -1 ELSE 0
             end(i)   == clip(i + offset, 0, n)
             start(i) == clip(i + offset - window, 0, n)
         IN  [raised  |-> "none",
              windows |-> [i \in 1..n |-> SubSeq(df, start(i) + 1, end(i))]]

\* df.head(n): the first n rows, or all but the last -n rows when n < 0
head(df, n) ==
    IF n >= 0 THEN SubSeq(df, 1, Min(n, Len(df)))
    ELSE SubSeq(df, 1, Max(0, Len(df) + n))

\* df.iloc[-1]
iloc_last(df) ==
    IF Len(df) = 0 THEN [raised |-> "IndexError", value |-> 0]
    ELSE [raised |-> "none", value |-> df[Len(df)]]

\* the first element of a series that has several
item_first(series) ==
    IF Len(series) >= 1 THEN [raised |-> "none", value |-> series[1]]
    ELSE [raised |-> "ValueError", value |-> 0]

\* series.item(): the only element of a series of length one
item(series) ==
    IF Len(series) = 1 THEN [raised |-> "none", value |-> series[1]]
    ELSE [raised |-> "ValueError", value |-> 0]

(***************************************************************************)
(* torch / numpy.                                                          *)
(***************************************************************************)
RECURSIVE Quantum(_, _)
Quantum(a, q) == IF a < 16777216 * q THEN q ELSE Quantum(a, 2 * q)

\* an integer cell as torch.float: exact up to 2^24, then rounded to the
\* nearest multiple of the spacing, ties to the even multiple
float32(v) ==
    LET a  == IF v < 0 THEN -v ELSE v
        q  == Quantum(a, 1)
        lo == (a \div q) * q
        r  == a - lo
        up == IF 2 * r > q \/ (2 * r = q /\ (lo \div q) % 2 = 1) THEN lo + q ELSE lo
    IN  IF v < 0 THEN -up ELSE up

\* torch.tensor(slice[columns].values, dtype=torch.float)
tensor(slice, columns) ==
    [j \in 1..Len(slice) |->
        [c \in 1..Len(columns) |-> float32(hurdat_table[slice[j]][columns[c]])]]

\* np.load(fp): the array stored at fp, channel axis last
np_load(fp) == [file |-> fp, layout |-> "HWC"]

\* np.moveaxis(a, -1, 0): the last axis becomes the first
moveaxis_last_first(a) ==
    [file |-> a.file, layout |-> IF a.layout = "HWC" THEN "CHW" ELSE "WCH"]

\* Resize((64,128)) of a channel-first tensor
oisst_resizer(t) ==
    [file |-> t.file, layout |-> t.layout, height |-> RESIZE_H, width |-> RESIZE_W]

(***************************************************************************)
(* HURDATPlus.generate_storm_ts_samples.                                   *)
(***************************************************************************)
\* lines 89-96: the input portion of window w
input_slice(w) == head(w, past_horizon)

input_dt(w) ==
    [j \in 1..Len(input_slice(w)) |-> datetime(hurdat_table[input_slice(w)[j]])]

\* the target portion as the trailing rows, w.tail(future_horizon)
output_slice_tail(w) == SubSeq(w, Len(w) - future_horizon + 1, Len(w))

\* lines 99-106: the target portion of window w; its timestamps are taken
\* from input_slice
output_slice(w) == head(w, past_horizon)

output_dt(w) ==
    [j \in 1..Len(input_slice(w)) |-> datetime(hurdat_table[input_slice(w)[j]])]

\* line 116: the file paths of the index rows whose datetime equals dt_str
matching_paths(dt_str) ==
    LET hits == SelectSeq(oisst_table.rows, LAMBDA e : e.datetime = dt_str)
    IN  [i \in 1..Len(hits) |-> hits[i].processed_file_path]

\* lines 114-120: the raster of one input timestep
oisst_data(fp) ==
    IF fp.raised # "none"
    THEN [raised |-> fp.raised, value |-> 0]
    ELSE [raised |-> "none",
          value  |-> oisst_resizer(moveaxis_last_first(np_load(fp.value)))]

oisst_of(dt) == oisst_data(item(matching_paths(strftime_date(minus_days(dt, 1)))))

\* lines 112-125: the rasters of all input timesteps, stacked in their order
RECURSIVE oisst_loop(_, _, _)
oisst_append(dts, j, acc, t) ==
    IF t.raised # "none" THEN [raised |-> t.raised, value |-> <<>>]
    ELSE oisst_loop(dts, j + 1, Append(acc, t.value))

oisst_loop(dts, j, acc) ==
    IF j > Len(dts) THEN [raised |-> "none", value |-> acc]
    ELSE oisst_append(dts, j, acc, oisst_of(dts[j]))

\* lines 86-109: the sample of window w without its rasters.  The field
\* "window" is bookkeeping: the index labels of w, which the dict does not
\* keep.
strftime_all(dts) == [j \in 1..Len(dts) |-> strftime_datetime(dts[j])]

sample_of(w) ==
    [input     |-> tensor(input_slice(w), input_vars),
     input_dt  |-> strftime_all(input_dt(w)),
     output    |-> tensor(output_slice(w), target_vars),
     output_dt |-> strftime_all(output_dt(w)),
     atcf_code |-> hurdat_table[w[1]].atcf_code,
     window    |-> w]

\* lines 111-125: the sample s with the stacked rasters
with_oisst(s, stack) ==
    IF stack.raised # "none"
    THEN [raised |-> stack.raised, value |-> 0]
    ELSE [raised |-> "none",
          value  |-> [input       |-> s.input,
                      input_dt    |-> s.input_dt,
                      output      |-> s.output,
                      output_dt   |-> s.output_dt,
                      atcf_code   |-> s.atcf_code,
                      input_oisst |-> stack.value,
                      window      |-> s.window]]

\* lines 86-125: the sample of a retained window w
data_window(w) ==
    IF oisst_table.is_none
    THEN [raised |-> "none", value |-> sample_of(w)]
    ELSE with_oisst(sample_of(w), oisst_loop(input_dt(w), 1, <<>>))

\* a window counted as full once it holds the input portion
is_short_of_input(w) == Len(w) < past_horizon

\* line 81: a window that has not the full size is skipped
is_short(w) == Len(w) # past_horizon + future_horizon

\* the gate read from the last row of the whole window
gate_row_last_of_window(w) == iloc_last(w)

\* line 83: the status gate reads the last row of the input portion
gate_row(w) == iloc_last(head(w, past_horizon))

\* lines 80-127: the loop over the windows ws from the i-th on
RECURSIVE storm_loop(_, _, _)
storm_loop(ws, i, data) ==
    IF i > Len(ws) THEN [raised |-> "none", data |-> data]
    ELSE IF is_short(ws[i])
    THEN storm_loop(ws, i + 1, data)
    ELSE LET last == gate_row(ws[i])
         IN  IF last.raised # "none" THEN [raised |-> last.raised, data |-> <<>>]
             ELSE IF hurdat_table[last.value].system_status \notin PermittedStatus
             THEN storm_loop(ws, i + 1, data)
             ELSE LET s == data_window(ws[i])
                  IN  IF s.raised # "none" THEN [raised |-> s.raised, data |-> <<>>]
                      ELSE storm_loop(ws, i + 1, Append(data, s.value))

generate_storm_ts_samples(storm_df) ==
    LET r == rolling(storm_df, past_horizon + future_horizon)
    IN  IF r.raised # "none" THEN [raised |-> r.raised, data |-> <<>>]
        ELSE storm_loop(r.windows, 1, <<>>)

(***************************************************************************)
(* HURDATPlus.generate_all_ts_samples.                                     *)
(***************************************************************************)
RECURSIVE all_loop(_, _, _)
all_loop(groups, g, all_samples) ==
    IF g > Len(groups) THEN [raised |-> "none", data |-> all_samples]
    ELSE LET storm_samples == generate_storm_ts_samples(groups[g].df)
         IN  IF storm_samples.raised # "none"
             THEN [raised |-> storm_samples.raised, data |-> <<>>]
             ELSE all_loop(groups, g + 1, all_samples \o storm_samples.data)

generate_all_ts_samples == all_loop(groupby(hurdat_table, grouping_var), 1, <<>>)

(***************************************************************************)
(* __len__ and __getitem__.                                                *)
(***************************************************************************)
len == Len(generated_samples)

\* the access that returns the input tensor of the sample (lines 135-136)
getitem_input_only(idx) ==
    LET n == Len(generated_samples)
    IN  IF idx >= 0 /\ idx < n
        THEN [raised |-> "none", value |-> generated_samples[idx + 1].input]
        ELSE IF idx < 0 /\ idx >= -n
        THEN [raised |-> "none", value |-> generated_samples[n + idx + 1].input]
        ELSE [raised |-> "IndexError", value |-> 0]

\* self.generated_samples[idx]: a negative idx counts from the end
getitem(idx) ==
    LET n == Len(generated_samples)
    IN  IF idx >= 0 /\ idx < n
        THEN [raised |-> "none", value |-> generated_samples[idx + 1]]
        ELSE IF idx < 0 /\ idx >= -n
        THEN [raised |-> "none", value |-> generated_samples[n + idx + 1]]
        ELSE [raised |-> "IndexError", value |-> 0]

(***************************************************************************)
(* The inputs of a construction.                                           *)
(***************************************************************************)
StormCodes == {1, 2}

Statuses == {"TS", "HU", "TD"}

\* the i-th row of a track table: the feature cells are set by the position
\* of the row, so that a cell tells which row it came from
Row(i, code, status, stamp) ==
    [atcf_code |-> code, system_status |-> status,
     year |-> stamp.year, month |-> stamp.month, day |-> stamp.day, hour |-> stamp.hour,
     longitude |-> 100 + i, latitude |-> 200 + i, min_pressure |-> 900 + i]

\* six-hourly observations from 2020-09-10 00:00 on
SixHourly(i) ==
    [year |-> 2020, month |-> 9, day |-> 10 + ((i - 1) \div 4), hour |-> 6 * ((i - 1) % 4)]

\* a track table of n rows with the given storm codes and statuses
TrackTable(n, cells) ==
    [i \in 1..n |-> Row(i, cells[i][1], cells[i][2], SixHourly(i))]

\* the storm of the end-to-end example: 13 rows, all "HU"
Storm13 == [i \in 1..13 |-> Row(i, 1, "HU", SixHourly(i))]

Horizons == (-1)..MaxHorizon

NoOisst == [is_none |-> TRUE, rows |-> <<>>]

\* constructions without a raster index: positive horizons with tables of
\* up to MaxRows rows, horizons of which one is not positive with tables
\* of up to MaxRowsNonPositive rows, and the end-to-end example
InitTrack ==
    /\ \/ /\ \E n \in 0..MaxRows : \E cells \in [1..n -> StormCodes \X Statuses] :
                hurdat_table = TrackTable(n, cells)
          /\ past_horizon \in 1..MaxHorizon
          /\ future_horizon \in 1..MaxHorizon
       \/ /\ \E n \in 0..MaxRowsNonPositive :
                \E cells \in [1..n -> StormCodes \X Statuses] :
                    hurdat_table = TrackTable(n, cells)
          /\ past_horizon \in Horizons
          /\ future_horizon \in Horizons
          /\ past_horizon <= 0 \/ future_horizon <= 0
       \/ /\ hurdat_table = Storm13
          /\ past_horizon = 12
          /\ future_horizon = 1
    /\ oisst_table = NoOisst

RasterStamps ==
    {[year |-> 2020, month |-> 9, day |-> 10, hour |-> 0],
     [year |-> 2020, month |-> 3, day |-> 1, hour |-> 6],
     [year |-> 2021, month |-> 1, day |-> 1, hour |-> 18]}

RasterCells == RasterStamps \X {"HU"}

\* a track table of one storm with the given timestamps and statuses
RasterTable(n, cells) ==
    [i \in 1..n |-> Row(i, 1, cells[i][2], cells[i][1])]

\* the datetime column of the raster index: "YYYY-MM-DD" strings
IndexDates ==
    {<<"2", "0", "2", "0", "-", "0", "9", "-", "0", "9">>,
     <<"2", "0", "2", "0", "-", "0", "9", "-", "1", "0">>,
     <<"2", "0", "2", "0", "-", "0", "2", "-", "2", "9">>,
     <<"2", "0", "2", "0", "-", "1", "2", "-", "3", "1">>}

\* an index table of n rows; the file path of the i-th row is the number i
OisstTable(n, ds) ==
    [is_none |-> FALSE,
     rows |-> [i \in 1..n |-> [datetime |-> ds[i], processed_file_path |-> i]]]

\* a storm observed on the first of March of the century years 2100, 1900
\* and 2000, with the index rows of the days before
CenturyStorm ==
    RasterTable(4, <<<<[year |-> 2100, month |-> 3, day |-> 1, hour |-> 12], "HU">>,
                     <<[year |-> 1900, month |-> 3, day |-> 1, hour |-> 0], "HU">>,
                     <<[year |-> 2000, month |-> 3, day |-> 1, hour |-> 6], "TS">>,
                     <<[year |-> 2000, month |-> 3, day |-> 1, hour |-> 12], "TS">>>>)

CenturyIndex ==
    OisstTable(3, <<<<"2", "1", "0", "0", "-", "0", "2", "-", "2", "8">>,
                    <<"1", "9", "0", "0", "-", "0", "2", "-", "2", "8">>,
                    <<"2", "0", "0", "0", "-", "0", "2", "-", "2", "9">>>>)

\* constructions with a raster index: one storm, all rows "HU", and the
\* century storm
InitRaster ==
    /\ \/ /\ \E n \in 1..MaxRasterRows : \E cells \in [1..n -> RasterCells] :
                hurdat_table = RasterTable(n, cells)
          /\ \E n \in 0..MaxIndexRows : \E ds \in [1..n -> IndexDates] :
                oisst_table = OisstTable(n, ds)
       \/ /\ hurdat_table = CenturyStorm
          /\ oisst_table = CenturyIndex
    /\ past_horizon \in 1..2
    /\ future_horizon = 1

Init ==
    /\ InitTrack \/ InitRaster
    /\ pc = "new"
    /\ raised = "none"
    /\ generated_samples = <<>>
    /\ ret = [op |-> "none", idx |-> 0, raised |-> "none", value |-> 0]

(***************************************************************************)
(* Actions.                                                                *)
(***************************************************************************)
\* HURDATPlus.__init__: generated_samples is assigned only when
\* generate_all_ts_samples returns
Construct ==
    /\ pc = "new"
    /\ LET r == generate_all_ts_samples
       IN  IF r.raised = "none"
           THEN /\ pc' = "done"
                /\ generated_samples' = r.data
                /\ raised' = "none"
           ELSE /\ pc' = "raised"
                /\ raised' = r.raised
                /\ UNCHANGED generated_samples
    /\ UNCHANGED <<hurdat_table, oisst_table, past_horizon, future_horizon, ret>>

CallLen ==
    /\ pc = "done"
    /\ ret' = [op |-> "__len__", idx |-> 0, raised |-> "none", value |-> len]
    /\ UNCHANGED <<hurdat_table, oisst_table, past_horizon, future_horizon,
                   pc, raised, generated_samples>>

CallGetItem ==
    /\ pc = "done"
    /\ \E idx \in (-1)..Len(generated_samples) :
          LET r == getitem(idx)
          IN  ret' = [op |-> "__getitem__", idx |-> idx, raised |-> r.raised,
                      value |-> r.value]
    /\ UNCHANGED <<hurdat_table, oisst_table, past_horizon, future_horizon,
                   pc, raised, generated_samples>>

Next == Construct \/ CallLen \/ CallGetItem

Spec == Init /\ [][Next]_vars

(***************************************************************************)
(* Vocabulary of the properties, defined apart from the operators of the   *)
(* generator.                                                              *)
(***************************************************************************)
P == past_horizon

F == future_horizon

W == past_horizon + future_horizon

PositiveHorizons == past_horizon > 0 /\ future_horizon > 0

Range(s) == {s[i] : i \in 1..Len(s)}

RECURSIVE Ascending(_)
Ascending(S) ==
    IF S = {} THEN <<>>
    ELSE LET m == CHOOSE x \in S : \A y \in S : x <= y
         IN  <<m>> \o Ascending(S \ {m})

CodesOf == {hurdat_table[i].atcf_code : i \in 1..Len(hurdat_table)}

\* the rows of a storm, in stored order
RowsOf(code) == Ascending({i \in 1..Len(hurdat_table) : hurdat_table[i].atcf_code = code})

FirstRowOf(code) == RowsOf(code)[1]

StatusOk(i) == hurdat_table[i].system_status \in {"TS", "HU"}

\* the window positions k of a storm whose gate row r[k+P-1] is TS or HU
RetainedAt(code) ==
    {k \in 0..(Len(RowsOf(code)) - W) : StatusOk(RowsOf(code)[k + P])}

WindowAt(code, k) == SubSeq(RowsOf(code), k + 1, k + W)

SamplesOf(code) == SelectSeq(generated_samples, LAMBDA s : s.atcf_code = code)

DateOf(row) == [year |-> row.year, month |-> row.month, day |-> row.day]

\* the day before a calendar date, by the rules of the calendar
CalLeap(y) == (y % 4 = 0 /\ y % 100 # 0) \/ y % 400 = 0

CalDaysIn(y, m) ==
    IF m = 2 THEN (IF CalLeap(y) THEN 29 ELSE 28)
    ELSE IF m \in {4, 6, 9, 11} THEN 30 ELSE 31

CalPrev(d) ==
    IF d.day > 1 THEN [year |-> d.year, month |-> d.month, day |-> d.day - 1]
    ELSE IF d.month > 1
    THEN [year |-> d.year, month |-> d.month - 1, day |-> CalDaysIn(d.year, d.month - 1)]
    ELSE [year |-> d.year - 1, month |-> 12, day |-> 31]

DigitVal(c) == CHOOSE n \in 0..9 : Digit(n) = c

\* reading "YYYY-MM-DD" (the first ten characters of a timestamp)
ParseDate(str) ==
    [year  |-> 1000 * DigitVal(str[1]) + 100 * DigitVal(str[2])
                 + 10 * DigitVal(str[3]) + DigitVal(str[4]),
     month |-> 10 * DigitVal(str[6]) + DigitVal(str[7]),
     day   |-> 10 * DigitVal(str[9]) + DigitVal(str[10])]

\* reading "YYYY-MM-DD HH:MM:SS"
ParseStamp(str) ==
    [date |-> ParseDate(str), hour |-> 10 * DigitVal(str[12]) + DigitVal(str[13]),
     rest |-> SubSeq(str, 14, Len(str))]

StampOf(row) == [date |-> DateOf(row), hour |-> row.hour, rest |-> <<":", "0", "0", ":", "0", "0">>]

\* the index rows whose date is the day before the date of track row i
IndexHits(i) ==
    {e \in 1..Len(oisst_table.rows) :
        ParseDate(oisst_table.rows[e].datetime) = CalPrev(DateOf(hurdat_table[i]))}

\* a retained window position with an input timestep whose lookup date
\* matches no index row or several
BadLookupAt(code, k) ==
    \E j \in 1..P : Cardinality(IndexHits(RowsOf(code)[k + j])) # 1

BadLookupExists ==
    \E code \in CodesOf : \E k \in RetainedAt(code) : BadLookupAt(code, k)

(***************************************************************************)
(* Properties.                                                             *)
(***************************************************************************)

\* C1: after generate_all_ts_samples (positive horizons), the row at
\* position past_horizon-1 of the window of every sample has status TS or
\* HU, and a window position whose last input-portion row has another
\* status has no sample, whatever the other rows of the window are.
C1_GateStatus ==
    (pc = "done" /\ PositiveHorizons) =>
        /\ \A n \in 1..Len(generated_samples) :
              StatusOk(generated_samples[n].window[P])
        /\ \A code \in CodesOf : \A k \in 0..(Len(RowsOf(code)) - W) :
              ~StatusOk(RowsOf(code)[k + P]) =>
                  \A n \in 1..Len(generated_samples) :
                      generated_samples[n].window # WindowAt(code, k)

\* a finished generation that kept a window and dropped one whose gate row
\* is "TD" although its other row is "HU"
C1_Witness ==
    /\ pc = "done" /\ PositiveHorizons /\ W = 2
    /\ Len(generated_samples) >= 1
    /\ \E code \in CodesOf : \E k \in 0..(Len(RowsOf(code)) - W) :
          /\ hurdat_table[RowsOf(code)[k + 1]].system_status = "TD"
          /\ hurdat_table[RowsOf(code)[k + 2]].system_status = "HU"

\* C2: for positive horizons the samples of every storm are, in increasing
\* k, one per window position k in 0..n-W whose gate row is TS or HU, each
\* built from the W consecutive rows r[k..k+W-1] of that storm; the 13-row
\* all-"HU" storm with past_horizon=12, future_horizon=1 yields one sample.
C2_StrideOneWindows ==
    (pc = "done" /\ PositiveHorizons) =>
        /\ \A code \in CodesOf :
              LET ks == Ascending(RetainedAt(code))
              IN  /\ Len(SamplesOf(code)) = Len(ks)
                  /\ \A n \in 1..Len(ks) :
                        SamplesOf(code)[n].window = WindowAt(code, ks[n])
        /\ \A n \in 1..Len(generated_samples) :
              generated_samples[n].atcf_code \in CodesOf
        /\ (hurdat_table = Storm13 /\ P = 12 /\ F = 1) => Len(generated_samples) = 1

\* a storm of four rows, windows of two rows: positions 0 and 2 are kept,
\* position 1 is dropped
C2_Witness ==
    /\ pc = "done" /\ PositiveHorizons /\ W = 2
    /\ \E code \in CodesOf :
          /\ Len(RowsOf(code)) = 4
          /\ RetainedAt(code) = {0, 2}
          /\ Len(SamplesOf(code)) = 2

\* C3: a storm with fewer than past_horizon+future_horizon rows has no
\* sample, whatever the statuses of its rows; the short windows of a group
\* are exactly its first past_horizon+future_horizon-1 windows.
C3_ShortStorms ==
    /\ pc = "done" =>
          \A code \in CodesOf :
              Len(RowsOf(code)) < W => Len(SamplesOf(code)) = 0
    /\ W >= 0 =>
          \A code \in CodesOf :
              LET ws == rolling(RowsOf(code), W).windows
              IN  /\ Len(ws) = Len(RowsOf(code))
                  /\ \A i \in 1..Len(ws) : (Len(ws[i]) # W) <=> (i <= W - 1)
    /\ pc = "done" =>
          \A n \in 1..Len(generated_samples) : Len(generated_samples[n].window) = W

\* a finished generation with a storm too short for a window, all of whose
\* rows are "HU", next to a storm that has a sample
C3_Witness ==
    /\ pc = "done" /\ PositiveHorizons
    /\ Len(generated_samples) >= 1
    /\ \E code \in CodesOf :
          /\ Len(RowsOf(code)) < W
          /\ \A i \in Range(RowsOf(code)) : hurdat_table[i].system_status = "HU"

\* the cells and the timestamps a sample holds
CellsOf(s) ==
    {s.input[j][c] : j \in 1..Len(s.input), c \in 1..Len(input_vars)}
        \cup {s.output[j][c] : j \in 1..Len(s.output), c \in 1..Len(target_vars)}

StampsOf(s) ==
    {ParseStamp(s.input_dt[j]) : j \in 1..Len(s.input_dt)}
        \cup {ParseStamp(s.output_dt[j]) : j \in 1..Len(s.output_dt)}

\* C4: for positive horizons, input has past_horizon rows of |input_vars|
\* columns and output has past_horizon rows of |target_vars| columns, both
\* read from the first past_horizon rows of the window; output_dt equals
\* input_dt; nothing of the trailing future_horizon rows is in the sample.
C4_TargetIsInputPortion ==
    (pc = "done" /\ PositiveHorizons) =>
        \A n \in 1..Len(generated_samples) :
            LET s == generated_samples[n]
            IN  /\ Len(s.input) = P /\ Len(s.output) = P
                /\ Len(s.input_dt) = P /\ Len(s.output_dt) = P
                /\ s.output_dt = s.input_dt
                /\ \A j \in 1..P :
                      /\ Len(s.input[j]) = Len(input_vars)
                      /\ Len(s.output[j]) = Len(target_vars)
                      /\ \A c \in 1..Len(input_vars) :
                            s.input[j][c] = hurdat_table[s.window[j]][input_vars[c]]
                      /\ \A c \in 1..Len(target_vars) :
                            s.output[j][c] = hurdat_table[s.window[j]][target_vars[c]]
                      /\ ParseStamp(s.input_dt[j]) = StampOf(hurdat_table[s.window[j]])
                /\ \A j \in (P + 1)..W :
                      LET t == hurdat_table[s.window[j]]
                      IN  /\ {t.longitude, t.latitude, t.min_pressure} \cap CellsOf(s) = {}
                          /\ (\A i \in 1..P : StampOf(hurdat_table[s.window[i]]) # StampOf(t))
                                => StampOf(t) \notin StampsOf(s)

\* a sample of two input rows and two trailing rows
C4_Witness ==
    /\ pc = "done" /\ P = 2 /\ F = 2
    /\ Len(generated_samples) >= 1
    /\ Len(generated_samples[1].output) = 2

\* C5: if the first row of storm A comes before the first row of storm B in
\* the table, every sample of A has a smaller index than every sample of B,
\* also when the keys are not sorted and the rows of a storm not adjacent.
C5_GroupOrder ==
    pc = "done" =>
        \A m, n \in 1..Len(generated_samples) :
            FirstRowOf(generated_samples[m].atcf_code)
                < FirstRowOf(generated_samples[n].atcf_code) => m < n

\* storms 2 and 1 interleaved, the larger key first, both with a sample
C5_Witness ==
    /\ pc = "done" /\ PositiveHorizons
    /\ Len(hurdat_table) = 4
    /\ [i \in 1..4 |-> hurdat_table[i].atcf_code] = <<2, 1, 2, 1>>
    /\ Len(SamplesOf(1)) = 1 /\ Len(SamplesOf(2)) = 1

\* C6: a construction with past_horizon <= 0 or future_horizon <= 0 fails
\* with every source table, and no sample is produced.
C6_NoSampleWithNonPositiveHorizon ==
    (past_horizon <= 0 \/ future_horizon <= 0) => generated_samples = <<>>

\* C7: with a raster index, when a lookup of the generation matches no
\* index row or several, the construction raises, from Series.item(), and
\* no collection is kept, not even the samples built before the lookup.
C7_LookupFailureAborts ==
    (~oisst_table.is_none /\ PositiveHorizons /\ pc # "new" /\ BadLookupExists) =>
        /\ pc = "raised"
        /\ raised = "ValueError"
        /\ generated_samples = <<>>

\* the first window of the storm has its rasters, a later one has not
C7_Witness ==
    /\ pc = "raised" /\ ~oisst_table.is_none
    /\ 0 \in RetainedAt(1) /\ ~BadLookupAt(1, 0)
    /\ \E k \in RetainedAt(1) : k > 0 /\ BadLookupAt(1, k)

\* C8: with a raster index, input_oisst of every sample stacks past_horizon
\* rasters, the j-th loaded from the index row whose date is the calendar
\* date of input timestamp j minus one day; a retained window with an input
\* timestep on 2020-09-10 fails when the index has no row for 2020-09-09.
C8_RasterDayBefore ==
    /\ (pc = "done" /\ ~oisst_table.is_none /\ PositiveHorizons) =>
          \A n \in 1..Len(generated_samples) :
              LET s == generated_samples[n]
              IN  /\ Len(s.input_oisst) = P
                  /\ \A j \in 1..P :
                        /\ IndexHits(s.window[j]) = {s.input_oisst[j].file}
                        /\ s.input_oisst[j].layout = "CHW"
                        /\ s.input_oisst[j].height = RESIZE_H
                        /\ s.input_oisst[j].width = RESIZE_W
    /\ (/\ pc # "new" /\ ~oisst_table.is_none /\ PositiveHorizons
        /\ \E code \in CodesOf : \E k \in RetainedAt(code) : \E j \in 1..P :
              DateOf(hurdat_table[RowsOf(code)[k + j]])
                  = [year |-> 2020, month |-> 9, day |-> 10]
        /\ \A e \in 1..Len(oisst_table.rows) :
              oisst_table.rows[e].datetime
                  # <<"2", "0", "2", "0", "-", "0", "9", "-", "0", "9">>)
          => pc = "raised"

\* a sample of two input timesteps, 2020-03-01 06:00 and 2021-01-01 18:00,
\* with the rasters of 2020-02-29 and 2020-12-31
C8_Witness ==
    /\ pc = "done" /\ ~oisst_table.is_none /\ P = 2
    /\ \E n \in 1..Len(generated_samples) :
          LET s == generated_samples[n]
              e(j) == oisst_table.rows[s.input_oisst[j].file].datetime
          IN  /\ ParseStamp(s.input_dt[1]).date = [year |-> 2020, month |-> 3, day |-> 1]
              /\ ParseStamp(s.input_dt[2]).date = [year |-> 2021, month |-> 1, day |-> 1]
              /\ e(1) = <<"2", "0", "2", "0", "-", "0", "2", "-", "2", "9">>
              /\ e(2) = <<"2", "0", "2", "0", "-", "1", "2", "-", "3", "1">>

\* C10: after construction __len__ returns the number of samples and
\* __getitem__(idx), 0 <= idx < len, returns the idx-th sample as it is;
\* no call changes generated_samples.
C10_AccessFrame ==
    /\ [](ret.op = "__len__" => ret.value = Len(generated_samples))
    /\ []((ret.op = "__getitem__" /\ ret.idx >= 0 /\ ret.idx < Len(generated_samples))
            => (ret.raised = "none" /\ ret.value = generated_samples[ret.idx + 1]))
    /\ [][pc = "done" => generated_samples' = generated_samples]_vars

\* __getitem__(1) has returned the second of at least two samples
C10_Witness ==
    /\ pc = "done" /\ ret.op = "__getitem__" /\ ret.idx = 1
    /\ Len(generated_samples) >= 2
    /\ ret.raised = "none"

====
